---- MODULE Spec2Model ----
(***************************************************************************)
(* Calorimeter hit clustering (TopologicalCellCluster) and centre-of-       *)
(* gravity cluster reconstruction (ClusterRecoCoG) of Juggler's JugReco.    *)
(*                                                                          *)
(* Units of the integers used for physical quantities:                      *)
(*   energy of the grouper's hits       keV (Gaudi: MeV = 1, keV = 0.001);  *)
(*                     the grouper only compares an energy with a threshold *)
(*   energy of a cluster's member hits  the unit of energy() itself         *)
(*                     (MeV = 1): the energies are whole numbers, which a   *)
(*                     float holds exactly, so that the float sum totalE    *)
(*                     of reconstruct is the sum of the integers            *)
(*   local position    0.1 mm                                               *)
(*   global position   mm                                                   *)
(*   eta, phi, ranges  1/1000 (milli-units, milli-radian)                   *)
(*   log weights       1/1000                                               *)
(***************************************************************************)
EXTENDS Integers, Sequences, FiniteSets, TLC

VARIABLES
  \* ---- TopologicalCellCluster ----
  cfg,        \* the Gaudi properties of the algorithm and its environment
  status,     \* what initialize() returned: "NONE" before it ran
  id_dec,     \* the ID decoder (a sequence of bit fields), or NoDecoder
  sector_idx, \* index of the sector field in id_dec
  layer_idx,  \* index of the layer field in id_dec
  hits,       \* the input hit collection of the event
  visits,     \* std::vector<bool> visits
  groups,     \* std::vector<std::vector<CalorimeterHit>>, as hit indices
  oi,         \* the loop variable i of execute()
  stack,      \* the dfs_group activation records, innermost last
  clusters,   \* the output cluster collection
  pc,         \* where the algorithm is
  \* ---- is_neighbor called on its own ----
  nh1, nh2,   \* the two hits
  nres,       \* <<is_neighbor(nh1, nh2), is_neighbor(nh2, nh1)>> once called
  \* ---- ClusterRecoCoG ----
  logWeightBase, \* the property m_logWeightBase
  rcl,        \* the cluster collection handed to ClusterRecoCoG::execute
  rnext,      \* index of the next cluster execute() hands to reconstruct
  rlog,       \* per reconstructed cluster: the locals of reconstruct (tw, weights)
  geoCalls    \* number of geometry-service lookups made so far

tccVars == <<cfg, status, id_dec, sector_idx, layer_idx, hits, visits, groups,
             oi, stack, clusters, pc>>
nbrVars == <<nh1, nh2, nres>>
recoVars == <<logWeightBase, rcl, rnext, rlog, geoCalls>>
vars == <<tccVars, nbrVars, recoVars>>

(***************************************************************************)
(* Bounds of the model.                                                     *)
(***************************************************************************)
\* layers are 0..MaxLayer
MaxLayer == 2
\* an event holds at most MaxHits hits
MaxHits == 4
\* a cluster handed to the reconstructor holds at most MaxClusterHits hits
MaxClusterHits == 3

(***************************************************************************)
(* IEEE-754 values: a finite number, +inf, -inf or NaN.  Finite values are  *)
(* integers in the unit of the quantity.                                    *)
(***************************************************************************)
Fin(n) == [k |-> "fin", v |-> n]
PInf == [k |-> "pinf", v |-> 0]
NInf == [k |-> "ninf", v |-> 0]
NaN == [k |-> "nan", v |-> 0]

Abs(n) == IF n < 0 THEN -n ELSE n

FNeg(a) ==
  CASE a.k = "fin" -> Fin(-a.v)
    [] a.k = "pinf" -> NInf
    [] a.k = "ninf" -> PInf
    [] OTHER -> NaN

FAdd(a, b) ==
  CASE a.k = "nan" \/ b.k = "nan" -> NaN
    [] a.k = "fin" /\ b.k = "fin" -> Fin(a.v + b.v)
    [] a.k = "fin" -> b
    [] b.k = "fin" -> a
    [] a.k = b.k -> a
    [] OTHER -> NaN

FSub(a, b) == FAdd(a, FNeg(b))

FAbs(a) ==
  CASE a.k = "fin" -> Fin(Abs(a.v))
    [] a.k = "nan" -> NaN
    [] OTHER -> PInf

\* a < b; false when either is NaN
FLt(a, b) ==
  CASE a.k = "nan" \/ b.k = "nan" -> FALSE
    [] a.k = "fin" /\ b.k = "fin" -> a.v < b.v
    [] a.k = "ninf" -> b.k # "ninf"
    [] b.k = "pinf" -> a.k # "pinf"
    [] OTHER -> FALSE

\* a <= b; false when either is NaN
FLeq(a, b) ==
  CASE a.k = "nan" \/ b.k = "nan" -> FALSE
    [] OTHER -> ~FLt(b, a)

(***************************************************************************)
(* The detector description seen through the geometry service: readouts    *)
(* and their ID decoders (dd4hep::BitFieldCoder).                           *)
(***************************************************************************)
NoDecoder == <<>>
NoIndex == 0

RECURSIVE Pow2(_)
Pow2(n) == IF n = 0 THEN 1 ELSE 2 * Pow2(n - 1)

\* the readouts of the detector; any other name makes readout() throw
ReadoutNames == {"EcalBarrelHits", "TrackerHits"}
Decoder(readout) ==
  IF readout = "EcalBarrelHits"
  THEN << [name |-> "system", offset |-> 0, width |-> 1],
          [name |-> "sector", offset |-> 1, width |-> 2],
          [name |-> "layer", offset |-> 3, width |-> 3] >>
  ELSE << [name |-> "system", offset |-> 0, width |-> 1],
          [name |-> "layer", offset |-> 1, width |-> 3] >>

\* BitFieldCoder::index(name): the index of the field, NoIndex when it throws
FieldIndex(dec, name) ==
  IF \E k \in DOMAIN dec : dec[k].name = name
  THEN CHOOSE k \in DOMAIN dec : dec[k].name = name
  ELSE NoIndex

\* BitFieldCoder::get(cellID, index): the value of the bit field
FieldGet(dec, cellID, idx) ==
  (cellID \div Pow2(dec[idx].offset)) % Pow2(dec[idx].width)

\* the cell ID the EcalBarrelHits readout gives a cell of a sector and layer
EcalCellID(sector, layer) == 1 + 2 * sector + 8 * layer

(***************************************************************************)
(* Hits.                                                                    *)
(***************************************************************************)
Pos(x, y, z) == [x |-> x, y |-> y, z |-> z]

\* the global positions hits are drawn from
PosPool == { Pos(0, 0, 0), Pos(0, 0, 5), Pos(5, 0, 0), Pos(5, 0, 5),
             Pos(0, 5, 5), Pos(15, 0, 0) }

\* calc_eta_phi_r: eta and phi of a global position, in 1/1000, rounded up:
\* asinh(1) = 0.88137... is 882 and pi/2 = 1.57079... is 1571.  The values
\* of the table are 0 or one such value, so a difference d of two of them
\* is 0 or the value itself, and for a tolerance t of whole 1/1000 the test
\* d <= t on the rounded-up value decides as the test on the double does.
\*   r = sqrt(x*x + y*y + z*z); phi = atan2(y, x); theta = acos(z / r);
\*   eta = -log(tan(theta / 2))
\* tabulated for the positions of PosPool.  At the origin z/r is 0/0, so eta
\* is NaN; on the positive z axis theta is 0 and eta is -log(0) = +inf.
calc_eta_phi_r(p) ==
  CASE p = Pos(0, 0, 0) -> [eta |-> NaN, phi |-> Fin(0)]
    [] p = Pos(0, 0, 5) -> [eta |-> PInf, phi |-> Fin(0)]
    [] p = Pos(5, 0, 0) -> [eta |-> Fin(0), phi |-> Fin(0)]
    [] p = Pos(15, 0, 0) -> [eta |-> Fin(0), phi |-> Fin(0)]
    [] p = Pos(5, 0, 5) -> [eta |-> Fin(882), phi |-> Fin(0)]
    [] p = Pos(0, 5, 5) -> [eta |-> Fin(882), phi |-> Fin(1571)]

pow2(x) == x * x

Hit(cellID, energy, position, local) ==
  [cellID |-> cellID, energy |-> energy, position |-> position, local |-> local]

(***************************************************************************)
(* TopologicalCellCluster::is_neighbor.                                     *)
(***************************************************************************)
\* sqrt(d2) <= dist, for an integer d2 >= 0
SqrtLeq(d2, dist) == dist >= 0 /\ d2 <= dist * dist

\* variant of is_neighbor: signed local differences in the same-layer case
is_neighbor_OneSided(c, dec, sidx, lidx, h1, h2) ==
  LET s1 == FieldGet(dec, h1.cellID, sidx)
      s2 == FieldGet(dec, h2.cellID, sidx)
      l1 == FieldGet(dec, h1.cellID, lidx)
      l2 == FieldGet(dec, h2.cellID, lidx)
      ldiff == Abs(l1 - l2)
  IN IF s1 # s2
     THEN SqrtLeq(pow2(h1.position.x - h2.position.x)
                  + pow2(h1.position.y - h2.position.y)
                  + pow2(h1.position.z - h2.position.z), c.adjSectorDist)
     ELSE IF ldiff = 0
     THEN /\ h1.local.x - h2.local.x <= c.localRanges[1]
          /\ h1.local.y - h2.local.y <= c.localRanges[2]
     ELSE IF ldiff <= c.adjLayerDiff
     THEN LET a1 == calc_eta_phi_r(h1.position)
              a2 == calc_eta_phi_r(h2.position)
          IN /\ FLeq(FAbs(FSub(a1.eta, a2.eta)), Fin(c.adjLayerRanges[1]))
             /\ FLeq(FAbs(FSub(a1.phi, a2.phi)), Fin(c.adjLayerRanges[2]))
     ELSE FALSE

\* variant of is_neighbor: the layer test before the sector test
is_neighbor_LayerFirst(c, dec, sidx, lidx, h1, h2) ==
  LET s1 == FieldGet(dec, h1.cellID, sidx)
      s2 == FieldGet(dec, h2.cellID, sidx)
      l1 == FieldGet(dec, h1.cellID, lidx)
      l2 == FieldGet(dec, h2.cellID, lidx)
      ldiff == Abs(l1 - l2)
  IN IF ldiff = 0
     THEN /\ Abs(h1.local.x - h2.local.x) <= c.localRanges[1]
          /\ Abs(h1.local.y - h2.local.y) <= c.localRanges[2]
     ELSE IF s1 # s2
     THEN SqrtLeq(pow2(h1.position.x - h2.position.x)
                  + pow2(h1.position.y - h2.position.y)
                  + pow2(h1.position.z - h2.position.z), c.adjSectorDist)
     ELSE IF ldiff <= c.adjLayerDiff
     THEN LET a1 == calc_eta_phi_r(h1.position)
              a2 == calc_eta_phi_r(h2.position)
          IN /\ FLeq(FAbs(FSub(a1.eta, a2.eta)), Fin(c.adjLayerRanges[1]))
             /\ FLeq(FAbs(FSub(a1.phi, a2.phi)), Fin(c.adjLayerRanges[2]))
     ELSE FALSE

\* c: the properties; dec, sidx, lidx: id_dec, sector_idx, layer_idx
is_neighbor(c, dec, sidx, lidx, h1, h2) ==
  LET s1 == FieldGet(dec, h1.cellID, sidx)
      s2 == FieldGet(dec, h2.cellID, sidx)
      l1 == FieldGet(dec, h1.cellID, lidx)
      l2 == FieldGet(dec, h2.cellID, lidx)
      ldiff == Abs(l1 - l2)
  IN IF s1 # s2
     THEN SqrtLeq(pow2(h1.position.x - h2.position.x)
                  + pow2(h1.position.y - h2.position.y)
                  + pow2(h1.position.z - h2.position.z), c.adjSectorDist)
     ELSE IF ldiff = 0
     THEN /\ Abs(h1.local.x - h2.local.x) <= c.localRanges[1]
          /\ Abs(h1.local.y - h2.local.y) <= c.localRanges[2]
     ELSE IF ldiff <= c.adjLayerDiff
     THEN LET a1 == calc_eta_phi_r(h1.position)
              a2 == calc_eta_phi_r(h2.position)
          IN /\ FLeq(FAbs(FSub(a1.eta, a2.eta)), Fin(c.adjLayerRanges[1]))
             /\ FLeq(FAbs(FSub(a1.phi, a2.phi)), Fin(c.adjLayerRanges[2]))
     ELSE FALSE

(***************************************************************************)
(* The properties of TopologicalCellCluster and what its environment        *)
(* answers during initialize().                                             *)
(***************************************************************************)
\* property defaults (lines 50-70 of TopologicalCellCluster.cpp)
DefaultLocalRanges == <<10, 10>>
DefaultAdjLayerRanges == <<31, 31>>

\* bi: GaudiAlgorithm::initialize() succeeds; gs: service(m_geoSvcName) is
\* found; then the properties readoutClass, sectorField, layerField,
\* localRanges, adjLayerRanges, adjLayerDiff, adjSectorDist, minClusterCenterEdep
Config(bi, gs, ro, sf, lf, lr, alr, ald, asd, edep) ==
  [ baseInit |-> bi,
    geoService |-> gs,
    readout |-> ro,
    sectorField |-> sf,
    layerField |-> lf,
    localRanges |-> lr,
    adjLayerRanges |-> alr,
    adjLayerDiff |-> ald,
    adjSectorDist |-> asd,
    minClusterCenterEdep |-> edep ]

\* the configurations an algorithm instance is constructed with
ConfigSet ==
  { Config(b, g, r, "sector", lf, lr, alr, 1, 10, 50) :
      b \in BOOLEAN, g \in BOOLEAN,
      r \in {"", "EcalBarrelHits", "TrackerHits", "NoSuchReadout"},
      lf \in {"layer", "lay"},
      lr \in {<<>>, <<10>>, DefaultLocalRanges},
      alr \in {<<31>>, DefaultAdjLayerRanges, <<882, 1571>>} }

(***************************************************************************)
(* TopologicalCellCluster::initialize.  The result is the returned status   *)
(* and the members as they are left; the try block assigns id_dec, then     *)
(* sector_idx, then layer_idx, and an exception leaves the rest as it was.  *)
(***************************************************************************)
InitOutcome(st, dec, sidx, lidx) ==
  [status |-> st, id_dec |-> dec, sector_idx |-> sidx, layer_idx |-> lidx]

\* variant of initialize: adjLayerRanges is not tested
initialize_NoAdjLayerCheck(c) ==
  IF ~c.baseInit THEN InitOutcome("FAILURE", NoDecoder, NoIndex, NoIndex)
  ELSE IF Len(c.localRanges) < 2
  THEN InitOutcome("FAILURE", NoDecoder, NoIndex, NoIndex)
  ELSE IF ~c.geoService THEN InitOutcome("FAILURE", NoDecoder, NoIndex, NoIndex)
  ELSE IF c.readout = "" THEN InitOutcome("FAILURE", NoDecoder, NoIndex, NoIndex)
  ELSE IF c.readout \notin ReadoutNames
  THEN InitOutcome("FAILURE", NoDecoder, NoIndex, NoIndex)
  ELSE LET dec == Decoder(c.readout)
           sidx == FieldIndex(dec, c.sectorField)
           lidx == FieldIndex(dec, c.layerField)
       IN IF sidx = NoIndex THEN InitOutcome("FAILURE", dec, NoIndex, NoIndex)
          ELSE IF lidx = NoIndex THEN InitOutcome("FAILURE", dec, sidx, NoIndex)
          ELSE InitOutcome("SUCCESS", dec, sidx, lidx)

initialize(c) ==
  IF ~c.baseInit THEN InitOutcome("FAILURE", NoDecoder, NoIndex, NoIndex)
  ELSE IF Len(c.localRanges) < 2
  THEN InitOutcome("FAILURE", NoDecoder, NoIndex, NoIndex)
  ELSE IF Len(c.adjLayerRanges) < 2
  THEN InitOutcome("FAILURE", NoDecoder, NoIndex, NoIndex)
  ELSE IF ~c.geoService THEN InitOutcome("FAILURE", NoDecoder, NoIndex, NoIndex)
  ELSE IF c.readout = "" THEN InitOutcome("FAILURE", NoDecoder, NoIndex, NoIndex)
  ELSE IF c.readout \notin ReadoutNames
  THEN InitOutcome("FAILURE", NoDecoder, NoIndex, NoIndex)
  ELSE LET dec == Decoder(c.readout)
           sidx == FieldIndex(dec, c.sectorField)
           lidx == FieldIndex(dec, c.layerField)
       IN IF sidx = NoIndex THEN InitOutcome("FAILURE", dec, NoIndex, NoIndex)
          ELSE IF lidx = NoIndex THEN InitOutcome("FAILURE", dec, sidx, NoIndex)
          ELSE InitOutcome("SUCCESS", dec, sidx, lidx)

(***************************************************************************)
(* The events of the grouper: hit sequences over a pool of hits that holds  *)
(* seeds, sub-threshold hits, a hit exactly at the seed threshold, chains   *)
(* of same-layer neighbours, adjacent-layer and cross-sector neighbours.    *)
(***************************************************************************)
Loc(x, y) == [x |-> x, y |-> y]

HitPool ==
  { Hit(EcalCellID(0, 0), 100, Pos(5, 0, 0), Loc(0, 0)),
    Hit(EcalCellID(0, 0), 10, Pos(5, 0, 0), Loc(10, 0)),
    Hit(EcalCellID(0, 0), 50, Pos(5, 0, 0), Loc(20, 0)),
    Hit(EcalCellID(0, 1), 5, Pos(5, 0, 5), Loc(0, 0)),
    Hit(EcalCellID(0, 1), 60, Pos(0, 5, 5), Loc(0, 0)),
    Hit(EcalCellID(0, 2), 49, Pos(0, 0, 0), Loc(0, 0)),
    Hit(EcalCellID(1, 2), 60, Pos(15, 0, 0), Loc(0, 0)),
    Hit(EcalCellID(1, 0), 5, Pos(5, 0, 5), Loc(50, 50)) }

RECURSIVE SeqsUpTo(_, _)
SeqsUpTo(S, n) ==
  IF n = 0 THEN {<<>>}
  ELSE LET shorter == SeqsUpTo(S, n - 1)
       IN shorter \cup { Append(s, e) : s \in { t \in shorter : Len(t) = n - 1 }, e \in S }

\* The three-hit example event: h1 (layer 0, sector 0, local (0, 0)),
\* h2 (layer 0, sector 0, local (0.2, 0.2) mm), h3 (layer 5, sector 0,
\* local (10, 10) mm) with energies e1, e2, e3.  The global positions play
\* no part: the hits share a sector and layers 0 and 5 are not adjacent.
ExampleEvent(e1, e2, e3) ==
  << Hit(EcalCellID(0, 0), e1, Pos(5, 0, 0), Loc(0, 0)),
     Hit(EcalCellID(0, 0), e2, Pos(5, 0, 0), Loc(2, 2)),
     Hit(EcalCellID(0, 5), e3, Pos(5, 0, 0), Loc(100, 100)) >>

\* hits[i].energy() is compared with the threshold as a bare number in
\* Gaudi units, where MeV = 1: the energies 100, 10, 5 are 100 MeV, 10 MeV
\* and 5 MeV
ExampleNative == ExampleEvent(100000, 10000, 5000)

\* the same example with its energies taken as keV
ExampleKeV == ExampleEvent(100, 10, 5)

EventSet == SeqsUpTo(HitPool, MaxHits) \cup {ExampleNative, ExampleKeV}

NoHit == Hit(0, 0, Pos(0, 0, 0), Loc(0, 0))

(***************************************************************************)
(* TopologicalCellCluster: initialize, then execute on one event.           *)
(* pc: "constructed" -> "initialized" | "failed"; "initialized" -> "seeds"  *)
(* (the loop of execute) <-> "dfs" (inside dfs_group) -> "done".            *)
(***************************************************************************)
recoIdle ==
  /\ logWeightBase = 0 /\ rcl = <<>> /\ rnext = 0 /\ rlog = <<>> /\ geoCalls = 0
nbrIdle == nh1 = NoHit /\ nh2 = NoHit /\ nres = <<>>

Init ==
  /\ cfg \in ConfigSet
  /\ status = "NONE"
  /\ id_dec = NoDecoder /\ sector_idx = NoIndex /\ layer_idx = NoIndex
  /\ hits = <<>> /\ visits = <<>> /\ groups = <<>>
  /\ oi = 0 /\ stack = <<>> /\ clusters = <<>>
  /\ pc = "constructed"
  /\ nbrIdle /\ recoIdle

Initialize ==
  /\ pc = "constructed"
  /\ LET r == initialize(cfg)
     IN /\ status' = r.status
        /\ id_dec' = r.id_dec
        /\ sector_idx' = r.sector_idx
        /\ layer_idx' = r.layer_idx
        /\ pc' = IF r.status = "SUCCESS" THEN "initialized" ELSE "failed"
  /\ UNCHANGED <<cfg, hits, visits, groups, oi, stack, clusters>>
  /\ UNCHANGED <<nbrVars, recoVars>>

\* execute(), lines 148-157: the framework calls it only on an algorithm
\* whose initialize() returned SUCCESS
ExecuteBegin ==
  /\ pc = "initialized"
  /\ \E ev \in EventSet :
       /\ hits' = ev
       /\ visits' = [k \in 1..Len(ev) |-> FALSE]
  /\ groups' = <<>>
  /\ clusters' = <<>>
  /\ oi' = 1
  /\ stack' = <<>>
  /\ pc' = "seeds"
  /\ UNCHANGED <<cfg, status, id_dec, sector_idx, layer_idx>>
  /\ UNCHANGED <<nbrVars, recoVars>>

\* the test of line 160
\* variant of the seed test: visits is not consulted
SeedSkipped_NoVisitCheck(k) ==
  hits[k].energy < cfg.minClusterCenterEdep

\* variant of the seed test: a hit at the threshold is skipped
SeedSkipped_StrictThreshold(k) ==
  visits[k] \/ hits[k].energy <= cfg.minClusterCenterEdep

SeedSkipped(k) ==
  visits[k] \/ hits[k].energy < cfg.minClusterCenterEdep

\* line 160-162: continue
SeedSkip ==
  /\ pc = "seeds" /\ oi <= Len(hits)
  /\ SeedSkipped(oi)
  /\ oi' = oi + 1
  /\ UNCHANGED <<cfg, status, id_dec, sector_idx, layer_idx, hits, visits,
                 groups, stack, clusters, pc>>
  /\ UNCHANGED <<nbrVars, recoVars>>

\* the first statements of dfs_group(group, idx, ...), group being
\* groups.back(): lines 228-234, and the loop variable set to its start
DfsEnter(gs, idx) ==
  /\ groups' = [gs EXCEPT ![Len(gs)] = Append(@, idx)]
  /\ visits' = [visits EXCEPT ![idx] = TRUE]
  /\ stack' = Append(stack, [idx |-> idx, i |-> 1])

\* lines 163-165: a new group, and the call of dfs_group on it
SeedStart ==
  /\ pc = "seeds" /\ oi <= Len(hits)
  /\ ~SeedSkipped(oi)
  /\ DfsEnter(Append(groups, <<>>), oi)
  /\ pc' = "dfs"
  /\ UNCHANGED <<cfg, status, id_dec, sector_idx, layer_idx, hits, oi, clusters>>
  /\ UNCHANGED <<nbrVars, recoVars>>

Top == stack[Len(stack)]

\* the test of line 237, for the innermost dfs_group
\* variant of the neighbour test: hits below the seed threshold are skipped
DfsSkipped_SeedsOnly(f) ==
  \/ visits[f.i]
  \/ ~is_neighbor(cfg, id_dec, sector_idx, layer_idx, hits[f.idx], hits[f.i])
  \/ hits[f.i].energy < cfg.minClusterCenterEdep

\* variant of the neighbour test: a visited hit is not skipped
DfsSkipped_NoVisitCheck(f) ==
  ~is_neighbor(cfg, id_dec, sector_idx, layer_idx, hits[f.idx], hits[f.i])

DfsSkipped(f) ==
  \/ visits[f.i]
  \/ ~is_neighbor(cfg, id_dec, sector_idx, layer_idx, hits[f.idx], hits[f.i])

\* lines 237-239: continue
DfsSkip ==
  /\ pc = "dfs" /\ Top.i <= Len(hits)
  /\ DfsSkipped(Top)
  /\ stack' = [stack EXCEPT ![Len(stack)].i = @ + 1]
  /\ UNCHANGED <<cfg, status, id_dec, sector_idx, layer_idx, hits, visits,
                 groups, oi, clusters, pc>>
  /\ UNCHANGED <<nbrVars, recoVars>>

\* line 240: the recursive call
DfsRecurse ==
  /\ pc = "dfs" /\ Top.i <= Len(hits)
  /\ ~DfsSkipped(Top)
  /\ DfsEnter(groups, Top.i)
  /\ UNCHANGED <<cfg, status, id_dec, sector_idx, layer_idx, hits, oi, clusters, pc>>
  /\ UNCHANGED <<nbrVars, recoVars>>

\* line 235 and 242: the loop of the innermost dfs_group ends and it returns;
\* its caller goes on with the next value of its loop variable
DfsReturn ==
  /\ pc = "dfs" /\ Top.i > Len(hits)
  /\ IF Len(stack) = 1
     THEN /\ stack' = <<>>
          /\ oi' = oi + 1
          /\ pc' = "seeds"
     ELSE /\ stack' = [SubSeq(stack, 1, Len(stack) - 1)
                         EXCEPT ![Len(stack) - 1].i = @ + 1]
          /\ UNCHANGED <<oi, pc>>
  /\ UNCHANGED <<cfg, status, id_dec, sector_idx, layer_idx, hits, visits,
                 groups, clusters>>
  /\ UNCHANGED <<nbrVars, recoVars>>

\* a cluster as clusters.create() makes it: no hits, nothing reconstructed
Unset == [k |-> "unset"]
NewCluster == [hits |-> <<>>, energy |-> Unset, position |-> Unset]

\* lines 167-173: one cluster per group, then return
ExecuteEnd ==
  /\ pc = "seeds" /\ oi > Len(hits)
  /\ clusters' = [k \in 1..Len(groups) |-> NewCluster]
  /\ pc' = "done"
  /\ UNCHANGED <<cfg, status, id_dec, sector_idx, layer_idx, hits, visits,
                 groups, oi, stack>>
  /\ UNCHANGED <<nbrVars, recoVars>>

Next ==
  \/ Initialize
  \/ ExecuteBegin
  \/ SeedSkip
  \/ SeedStart
  \/ DfsSkip
  \/ DfsRecurse
  \/ DfsReturn
  \/ ExecuteEnd

Spec == Init /\ [][Next]_vars

(***************************************************************************)
(* is_neighbor on its own: an initialized algorithm is handed two hits.     *)
(***************************************************************************)
\* properties that pass initialize(), with the adjacency tolerances varied
NbrConfigSet ==
  { Config(TRUE, TRUE, "EcalBarrelHits", "sector", "layer",
           DefaultLocalRanges, DefaultAdjLayerRanges, 1, 10, 50),
    Config(TRUE, TRUE, "EcalBarrelHits", "sector", "layer",
           <<5, 10>>, <<882, 1571>>, 2, 5, 50),
    Config(TRUE, TRUE, "EcalBarrelHits", "sector", "layer",
           <<15, 0>>, <<882, 0>>, 0, 15, 50) }

NbrHitSet ==
  { Hit(EcalCellID(s, l), 100, p, Loc(lx, ly)) :
      s \in {0, 1}, l \in 0..MaxLayer, p \in PosPool,
      lx \in {0, 10, 15}, ly \in {0, 10} }

InitNbr ==
  /\ cfg \in NbrConfigSet
  /\ status = initialize(cfg).status
  /\ id_dec = initialize(cfg).id_dec
  /\ sector_idx = initialize(cfg).sector_idx
  /\ layer_idx = initialize(cfg).layer_idx
  /\ hits = <<>> /\ visits = <<>> /\ groups = <<>>
  /\ oi = 0 /\ stack = <<>> /\ clusters = <<>>
  /\ pc = "initialized"
  /\ nh1 \in NbrHitSet /\ nh2 \in NbrHitSet
  /\ nres = <<>>
  /\ recoIdle

CallIsNeighbor ==
  /\ status = "SUCCESS"
  /\ nres = <<>>
  /\ nres' = << is_neighbor(cfg, id_dec, sector_idx, layer_idx, nh1, nh2),
               is_neighbor(cfg, id_dec, sector_idx, layer_idx, nh2, nh1) >>
  /\ UNCHANGED <<tccVars, nh1, nh2, recoVars>>

NextNbr == CallIsNeighbor

SpecNbr == InitNbr /\ [][NextNbr]_vars

(***************************************************************************)
(* The adjacency graph of an event, and what the grouper made of it.        *)
(***************************************************************************)
HitIndices == 1..Len(hits)

Neighbors(a, b) ==
  is_neighbor(cfg, id_dec, sector_idx, layer_idx, hits[a], hits[b])

Adjacent(a, b) == Neighbors(a, b) \/ Neighbors(b, a)

RECURSIVE Reachable(_)
Reachable(S) ==
  LET T == S \cup { j \in HitIndices : \E a \in S : Adjacent(a, j) }
  IN IF T = S THEN S ELSE Reachable(T)

Component(a) == Reachable({a})

SeedEligible(a) == hits[a].energy >= cfg.minClusterCenterEdep

Members(g) == { g[k] : k \in DOMAIN g }

GroupSets == { Members(groups[k]) : k \in DOMAIN groups }

Grouped == UNION GroupSets

\* C1: the hit groups are pairwise disjoint and duplicate-free: a hit index
\* is in at most one group, and at most once in it.
C1_GroupsDisjoint ==
  /\ \A g \in DOMAIN groups :
       \A k1, k2 \in DOMAIN groups[g] :
         groups[g][k1] = groups[g][k2] => k1 = k2
  /\ \A g1, g2 \in DOMAIN groups :
       g1 # g2 => Members(groups[g1]) \cap Members(groups[g2]) = {}

C1_Witness ==
  /\ pc = "done"
  /\ Len(groups) >= 2
  /\ \E g \in DOMAIN groups : Len(groups[g]) >= 2

\* C2: after execute the groups are exactly the connected components of the
\* adjacency graph that hold a seed-eligible hit: each group is the whole
\* component of its seed, no member has a neighbour outside its group, and
\* the grouped hits are those reachable from a seed-eligible hit.
C2_GroupsAreComponents ==
  pc = "done" =>
    /\ GroupSets = { Component(a) : a \in { b \in HitIndices : SeedEligible(b) } }
    /\ Len(groups) = Cardinality(GroupSets)
    /\ \A g \in DOMAIN groups : Members(groups[g]) = Component(groups[g][1])
    /\ \A g \in DOMAIN groups :
         \A a \in Members(groups[g]) :
           \A b \in HitIndices \ Members(groups[g]) : ~Adjacent(a, b)
    /\ Grouped = Reachable({ b \in HitIndices : SeedEligible(b) })

\* a group of three whose seed reaches a member only through another one,
\* with a member below the threshold, and a hit that no group holds
C2_Witness ==
  /\ pc = "done"
  /\ \E g \in DOMAIN groups :
       /\ Len(groups[g]) = 3
       /\ \E a \in Members(groups[g]) : ~SeedEligible(a)
       /\ \E a \in Members(groups[g]) : ~Adjacent(groups[g][1], a)
  /\ HitIndices \ Grouped # {}

\* C3: every group is non-empty and its seed, the first hit appended, has
\* energy >= minClusterCenterEdep; a hit whose energy equals the threshold
\* is seed-eligible, so after execute every hit at or above the threshold
\* is grouped; other members may lie below the threshold.
C3_SeedAboveThreshold ==
  /\ \A g \in DOMAIN groups :
       /\ Len(groups[g]) >= 1
       /\ hits[groups[g][1]].energy >= cfg.minClusterCenterEdep
  /\ pc = "done" =>
       \A a \in HitIndices :
         hits[a].energy >= cfg.minClusterCenterEdep => a \in Grouped

C3_Witness ==
  /\ pc = "done"
  /\ \E g \in DOMAIN groups :
       /\ hits[groups[g][1]].energy = cfg.minClusterCenterEdep
       /\ \E k \in DOMAIN groups[g] :
            k > 1 /\ hits[groups[g][k]].energy < cfg.minClusterCenterEdep

(***************************************************************************)
(* The adjacency relation as the design states it, on the sector and layer  *)
(* a cell ID was made from.                                                 *)
(***************************************************************************)
SectorOf(h) == CHOOSE s \in 0..3 : \E l \in 0..7 : h.cellID = EcalCellID(s, l)
LayerOf(h) == CHOOSE l \in 0..7 : \E s \in 0..3 : h.cellID = EcalCellID(s, l)

\* the squared global distance, and the angular separations (NaN: undefined)
Dist2(h1, h2) ==
  (h1.position.x - h2.position.x) * (h1.position.x - h2.position.x)
  + (h1.position.y - h2.position.y) * (h1.position.y - h2.position.y)
  + (h1.position.z - h2.position.z) * (h1.position.z - h2.position.z)

DEta(h1, h2) ==
  FAbs(FSub(calc_eta_phi_r(h1.position).eta, calc_eta_phi_r(h2.position).eta))
DPhi(h1, h2) ==
  FAbs(FSub(calc_eta_phi_r(h1.position).phi, calc_eta_phi_r(h2.position).phi))

WithinTol(d, tol) == d.k = "fin" /\ d.v <= tol

ReferenceNeighbor(c, h1, h2) ==
  CASE SectorOf(h1) # SectorOf(h2) ->
         c.adjSectorDist >= 0 /\ Dist2(h1, h2) <= c.adjSectorDist * c.adjSectorDist
    [] SectorOf(h1) = SectorOf(h2) /\ LayerOf(h1) = LayerOf(h2) ->
         /\ Abs(h1.local.x - h2.local.x) <= c.localRanges[1]
         /\ Abs(h1.local.y - h2.local.y) <= c.localRanges[2]
    [] /\ SectorOf(h1) = SectorOf(h2) /\ LayerOf(h1) # LayerOf(h2)
       /\ Abs(LayerOf(h1) - LayerOf(h2)) <= c.adjLayerDiff ->
         /\ WithinTol(DEta(h1, h2), c.adjLayerRanges[1])
         /\ WithinTol(DPhi(h1, h2), c.adjLayerRanges[2])
    [] OTHER -> FALSE

\* C4: the adjacency relation is symmetric:
\* is_neighbor(h1, h2) = is_neighbor(h2, h1) for all hit pairs, in each branch.
C4_NeighborSymmetric ==
  nres # <<>> => nres[1] = nres[2]

C4_Witness ==
  /\ nres = <<TRUE, TRUE>>
  /\ nh1 # nh2
  /\ SectorOf(nh1) = SectorOf(nh2)
  /\ Abs(LayerOf(nh1) - LayerOf(nh2)) = 1
  /\ nh1.local.x < nh2.local.x

\* C5: is_neighbor is the four-case relation, the sector test first: other
\* sectors, global distance <= adjSectorDist; else same layer, both local
\* differences within localRanges; else layers within adjLayerDiff, eta and
\* phi differences within adjLayerRanges; else false.  All comparisons are
\* inclusive.
C5_NeighborFourCases ==
  nres # <<>> => nres[1] = ReferenceNeighbor(cfg, nh1, nh2)

\* another sector, at a distance equal to adjSectorDist, on the same layer
\* with local positions too far apart for a same-layer pair
C5_Witness ==
  /\ nres # <<>> /\ nres[1]
  /\ SectorOf(nh1) # SectorOf(nh2)
  /\ LayerOf(nh1) = LayerOf(nh2)
  /\ Dist2(nh1, nh2) = cfg.adjSectorDist * cfg.adjSectorDist
  /\ Abs(nh1.local.x - nh2.local.x) > cfg.localRanges[1]

(***************************************************************************)
(* ClusterRecoCoG.                                                          *)
(***************************************************************************)
\* std::log of 1..160 in 1/1000, rounded
LnTable ==
  <<
     0, 693, 1099, 1386, 1609, 1792, 1946, 2079, 2197, 2303,
     2398, 2485, 2565, 2639, 2708, 2773, 2833, 2890, 2944, 2996,
     3045, 3091, 3135, 3178, 3219, 3258, 3296, 3332, 3367, 3401,
     3434, 3466, 3497, 3526, 3555, 3584, 3611, 3638, 3664, 3689,
     3714, 3738, 3761, 3784, 3807, 3829, 3850, 3871, 3892, 3912,
     3932, 3951, 3970, 3989, 4007, 4025, 4043, 4060, 4078, 4094,
     4111, 4127, 4143, 4159, 4174, 4190, 4205, 4220, 4234, 4248,
     4263, 4277, 4290, 4304, 4317, 4331, 4344, 4357, 4369, 4382,
     4394, 4407, 4419, 4431, 4443, 4454, 4466, 4477, 4489, 4500,
     4511, 4522, 4533, 4543, 4554, 4564, 4575, 4585, 4595, 4605,
     4615, 4625, 4635, 4644, 4654, 4663, 4673, 4682, 4691, 4700,
     4710, 4718, 4727, 4736, 4745, 4754, 4762, 4771, 4779, 4787,
     4796, 4804, 4812, 4820, 4828, 4836, 4844, 4852, 4860, 4868,
     4875, 4883, 4890, 4898, 4905, 4913, 4920, 4927, 4934, 4942,
     4949, 4956, 4963, 4970, 4977, 4984, 4990, 4997, 5004, 5011,
     5017, 5024, 5030, 5037, 5043, 5050, 5056, 5063, 5069, 5075
  >>

\* std::log(e / t) for finite energies e and t: e / t is +-inf or NaN when
\* t is 0, the logarithm of 0 is -inf and that of a negative number NaN
LogRatio(e, t) ==
  CASE t = 0 /\ e > 0 -> PInf
    [] t = 0 /\ e <= 0 -> NaN
    [] t # 0 /\ e = 0 -> NInf
    [] t # 0 /\ e # 0 /\ (e < 0) # (t < 0) -> NaN
    [] OTHER -> Fin(LnTable[Abs(e)] - LnTable[Abs(t)])

\* std::max(a, b): (a < b) ? b : a
FMax(a, b) == IF FLt(a, b) THEN b ELSE a

\* a * b, a finite
FMul(a, b) ==
  CASE b.k = "nan" -> NaN
    [] b.k = "fin" -> Fin(a.v * b.v)
    [] a.v = 0 -> NaN
    [] a.v > 0 -> b
    [] OTHER -> FNeg(b)

\* a / b for b >= 0 or NaN; a finite quotient is rounded down to the unit
FDiv(a, b) ==
  CASE a.k = "nan" \/ b.k = "nan" -> NaN
    [] b.k = "pinf" -> IF a.k = "fin" THEN Fin(0) ELSE NaN
    [] b.v = 0 /\ a.k = "fin" /\ a.v = 0 -> NaN
    [] b.v = 0 /\ a.k = "fin" -> IF a.v > 0 THEN PInf ELSE NInf
    [] a.k = "fin" -> Fin(a.v \div b.v)
    [] OTHER -> a

\* line 100
\* variant of the weight: std::max(v, 0.), which returns v when v is NaN
Weight_ClampSwapped(base, e, totalE) ==
  FMax(FAdd(Fin(base), LogRatio(e, totalE)), Fin(0))

Weight(base, e, totalE) ==
  FMax(Fin(0), FAdd(Fin(base), LogRatio(e, totalE)))

RecoHit(cellID0, energy, lx, ly, lz) ==
  [cellID0 |-> cellID0, energy |-> energy, localPosition |-> Pos(lx, ly, lz)]

\* lines 84-93: the loop from member k on; acc holds totalE, maxE, centerID.
\* Variant: totalE is added to only when a new maximum is found
RECURSIVE EnergyLoop_SumInsideIf(_, _, _)
EnergyLoop_SumInsideIf(hs, k, acc) ==
  IF k > Len(hs) THEN acc
  ELSE LET energy == hs[k].energy
       IN EnergyLoop_SumInsideIf(hs, k + 1,
            IF energy > acc.maxE
            THEN [totalE |-> acc.totalE + energy, maxE |-> energy,
                  centerID |-> hs[k].cellID0]
            ELSE acc)

\* lines 84-93: the loop from member k on; acc holds totalE, maxE, centerID
\* totalE and maxE are floats: on member energies that are whole numbers of
\* the unit of energy() every partial sum is a whole number a float holds
\* exactly, and += is the addition of integers.
\* Variant: a later member of equal energy replaces the maximum
RECURSIVE EnergyLoop_LastMax(_, _, _)
EnergyLoop_LastMax(hs, k, acc) ==
  IF k > Len(hs) THEN acc
  ELSE LET energy == hs[k].energy
           totalE == acc.totalE + energy
       IN EnergyLoop_LastMax(hs, k + 1,
            IF energy >= acc.maxE
            THEN [totalE |-> totalE, maxE |-> energy, centerID |-> hs[k].cellID0]
            ELSE [acc EXCEPT !.totalE = totalE])

RECURSIVE EnergyLoop(_, _, _)
EnergyLoop(hs, k, acc) ==
  IF k > Len(hs) THEN acc
  ELSE LET energy == hs[k].energy
           totalE == acc.totalE + energy
       IN EnergyLoop(hs, k + 1,
            IF energy > acc.maxE
            THEN [totalE |-> totalE, maxE |-> energy, centerID |-> hs[k].cellID0]
            ELSE [acc EXCEPT !.totalE = totalE])

\* lines 97-105: the loop from member k on; acc holds tw, x, y, z and, for
\* the record, the weights w computed so far
RECURSIVE WeightLoop(_, _, _, _, _)
WeightLoop(hs, k, base, totalE, acc) ==
  IF k > Len(hs) THEN acc
  ELSE LET w == Weight(base, hs[k].energy, totalE)
           lp == hs[k].localPosition
       IN WeightLoop(hs, k + 1, base, totalE,
            [ tw |-> FAdd(acc.tw, w),
              x |-> FAdd(acc.x, FMul(Fin(lp.x), w)),
              y |-> FAdd(acc.y, FMul(Fin(lp.y), w)),
              z |-> FAdd(acc.z, FMul(Fin(lp.z), w)),
              w |-> Append(acc.w, w) ])

\* lines 108-115: localToWorld of the nominal alignment of cell frameCell,
\* applied to the local point (x, y, z - dim[2]/2), dim the dimensions of
\* cell depthCell; the geometry is not interpreted
WorldPosition(frameCell, depthCell, x, y, z) ==
  [k |-> "world", frame |-> frameCell, depthOf |-> depthCell,
   x |-> x, y |-> y, z |-> z]

RecoOutcome(cl, tw, w, centerID, lookups, divided) ==
  [cl |-> cl, tw |-> tw, w |-> w, centerID |-> centerID, lookups |-> lookups,
   divided |-> divided]

\* variant of reconstruct: no early return for a cluster without hits
reconstruct_NoEmptyCheck(cl, base) ==
  LET hs == cl.hits
      first == IF Len(hs) = 0 THEN 0 ELSE hs[1].cellID0
      e == EnergyLoop(hs, 1, [totalE |-> 0, maxE |-> 0, centerID |-> first])
      a == WeightLoop(hs, 1, base, e.totalE,
                      [tw |-> Fin(0), x |-> Fin(0), y |-> Fin(0), z |-> Fin(0),
                       w |-> <<>>])
      gpos == WorldPosition(e.centerID, e.centerID, FDiv(a.x, a.tw),
                            FDiv(a.y, a.tw), FDiv(a.z, a.tw))
  IN RecoOutcome([cl EXCEPT !.energy = Fin(e.totalE), !.position = gpos],
                 a.tw, a.w, e.centerID, 2, TRUE)

\* ClusterRecoCoG::reconstruct: the cluster as it is left, and for the
\* record tw, the weights, centerID, the number of geometry lookups
\* (lookupDetector, cellDimensions) and whether the sums were divided by tw
reconstruct(cl, base) ==
  IF Len(cl.hits) = 0
  THEN RecoOutcome(cl, Fin(0), <<>>, 0, 0, FALSE)
  ELSE LET hs == cl.hits
           e == EnergyLoop(hs, 1, [totalE |-> 0, maxE |-> 0,
                                   centerID |-> hs[1].cellID0])
           a == WeightLoop(hs, 1, base, e.totalE,
                           [tw |-> Fin(0), x |-> Fin(0), y |-> Fin(0),
                            z |-> Fin(0), w |-> <<>>])
           gpos == WorldPosition(e.centerID, e.centerID, FDiv(a.x, a.tw),
                                 FDiv(a.y, a.tw), FDiv(a.z, a.tw))
       IN RecoOutcome([cl EXCEPT !.energy = Fin(e.totalE), !.position = gpos],
                      a.tw, a.w, e.centerID, 2, TRUE)

\* the values of logWeightBase: 0, ln 2 and the default 3.6
LogWeightBases == {0, 693, 3600}

\* member hits: energies are whole numbers of the unit of energy() (0.f,
\* 1.f, 2.f, 37.f) and non-negative (0 included); 1 of 38 is below the floor
\* of the default logWeightBase, e^-3.6
RecoHitPool ==
  { RecoHit(c, e, c, 5, 2) : c \in {7, 9}, e \in {0, 1, 2, 37} }

\* member hits of any energy, negative ones (-1.f) included
AnyRecoHitPool ==
  RecoHitPool \cup { RecoHit(c, -1, c, 5, 2) : c \in {7, 9} }

Cluster(hs, energy, position) ==
  [hits |-> hs, energy |-> energy, position |-> position]

\* the cluster collections handed to execute(), with member hits of pool:
\* one cluster of up to MaxClusterHits hits, or two clusters of at most one
\* hit each
RecoEvents(pool) ==
  { <<Cluster(hs, en, Unset)>> :
      hs \in SeqsUpTo(pool, MaxClusterHits), en \in {Unset, Fin(5)} }
  \cup
  { <<Cluster(hs1, Unset, Unset), Cluster(hs2, Fin(5), Unset)>> :
      hs1 \in SeqsUpTo(pool, 1), hs2 \in SeqsUpTo(pool, 1) }

RecoEventSet == RecoEvents(RecoHitPool)

tccIdle ==
  /\ cfg = Config(TRUE, TRUE, "", "sector", "layer", DefaultLocalRanges,
                  DefaultAdjLayerRanges, 1, 10, 50)
  /\ status = "NONE"
  /\ id_dec = NoDecoder /\ sector_idx = NoIndex /\ layer_idx = NoIndex
  /\ hits = <<>> /\ visits = <<>> /\ groups = <<>>
  /\ oi = 0 /\ stack = <<>> /\ clusters = <<>>
  /\ pc = "constructed"

\* ClusterRecoCoG after initialize() found the geometry service
InitReco ==
  /\ logWeightBase \in LogWeightBases
  /\ rcl = <<>> /\ rnext = 0 /\ rlog = <<>> /\ geoCalls = 0
  /\ tccIdle /\ nbrIdle

\* ClusterRecoCoG::execute, line 64: the cluster collection of the event
RecoExecuteBegin ==
  /\ rnext = 0
  /\ rcl' \in RecoEventSet
  /\ rnext' = 1
  /\ UNCHANGED <<logWeightBase, rlog, geoCalls>>
  /\ UNCHANGED <<tccVars, nbrVars>>

\* ClusterRecoCoG::execute, lines 66-70: reconstruct(cl) on the next cluster;
\* cl is a handle, what reconstruct() sets is set in the collection
Reconstruct ==
  /\ rnext >= 1 /\ rnext <= Len(rcl)
  /\ LET r == reconstruct(rcl[rnext], logWeightBase)
     IN /\ rcl' = [rcl EXCEPT ![rnext] = r.cl]
        /\ rlog' = Append(rlog, [ before |-> rcl[rnext], tw |-> r.tw, w |-> r.w,
                                  centerID |-> r.centerID,
                                  lookups |-> r.lookups, divided |-> r.divided ])
        /\ geoCalls' = geoCalls + r.lookups
  /\ rnext' = rnext + 1
  /\ UNCHANGED logWeightBase
  /\ UNCHANGED <<tccVars, nbrVars>>

NextReco == RecoExecuteBegin \/ Reconstruct

SpecReco == InitReco /\ [][NextReco]_vars

\* the same on clusters whose member hits may have any energy
RecoExecuteBeginAny ==
  /\ rnext = 0
  /\ rcl' \in RecoEvents(AnyRecoHitPool)
  /\ rnext' = 1
  /\ UNCHANGED <<logWeightBase, rlog, geoCalls>>
  /\ UNCHANGED <<tccVars, nbrVars>>

NextRecoAny == RecoExecuteBeginAny \/ Reconstruct

SpecRecoAny == InitReco /\ [][NextRecoAny]_vars

(***************************************************************************)
(* What reconstruct left of the clusters handed to it so far.               *)
(***************************************************************************)
Reconstructed == 1..Len(rlog)

RECURSIVE SumEnergy(_)
SumEnergy(hs) ==
  IF hs = <<>> THEN 0 ELSE hs[1].energy + SumEnergy(Tail(hs))

\* C6: after reconstruct on a cluster with at least one member hit, the
\* cluster's energy is the sum of its member hits' energies, whatever the
\* total weight is.
C6_EnergyIsSum ==
  \A c \in Reconstructed :
    Len(rcl[c].hits) >= 1 => rcl[c].energy = Fin(SumEnergy(rcl[c].hits))

C6_Witness ==
  \E c \in Reconstructed :
    /\ Len(rcl[c].hits) = 3
    /\ rcl[c].hits[2].energy < rcl[c].hits[1].energy
    /\ rcl[c].hits[3].energy > 0
    /\ rlog[c].tw = Fin(0)
    /\ rcl[c].energy = Fin(SumEnergy(rcl[c].hits))

\* C7: reconstruct on a cluster without member hits is a no-op: energy and
\* position stay as they were and no geometry lookup is made.
C7_EmptyClusterNoOp ==
  /\ \A c \in Reconstructed :
       Len(rlog[c].before.hits) = 0 =>
         /\ rcl[c] = rlog[c].before
         /\ rlog[c].lookups = 0
  /\ (\A c \in Reconstructed : Len(rcl[c].hits) = 0) => geoCalls = 0

C7_Witness ==
  /\ Len(rlog) = 2
  /\ Len(rcl[1].hits) = 0 /\ Len(rcl[2].hits) = 0
  /\ rcl[2].energy = Fin(5) /\ rcl[2].position = Unset
  /\ geoCalls = 0

\* C8: when the total weight of a cluster is 0, reconstruct leaves the
\* position unset: it is not written, nothing is divided by tw, and no NaN
\* is stored.
C8_ZeroWeightPositionUnset ==
  \A c \in Reconstructed :
    (Len(rcl[c].hits) >= 1 /\ rlog[c].tw = Fin(0)) =>
      /\ rcl[c].position = rlog[c].before.position
      /\ ~rlog[c].divided

\* C9: every weight w = max(0, logWeightBase + ln(hitEnergy / totalEnergy))
\* is >= 0, for any energies (a hit of energy 0, a total energy of 0), and
\* so is the total weight tw.
C9_WeightsNonNegative ==
  \A c \in Reconstructed :
    /\ Len(rlog[c].w) = Len(rcl[c].hits)
    /\ \A j \in DOMAIN rlog[c].w : FLeq(Fin(0), rlog[c].w[j])
    /\ FLeq(Fin(0), rlog[c].tw)

C9_Witness ==
  \E c \in Reconstructed :
    /\ Len(rcl[c].hits) >= 2
    /\ SumEnergy(rcl[c].hits) = 0
    /\ \E j \in DOMAIN rcl[c].hits : rcl[c].hits[j].energy = 0
    /\ \E j \in DOMAIN rcl[c].hits : rcl[c].hits[j].energy > 0
    /\ \E j \in DOMAIN rlog[c].w : rlog[c].w[j] = PInf

(***************************************************************************)
(* What initialize() checks.                                                *)
(***************************************************************************)
FieldNames(dec) == { dec[k].name : k \in DOMAIN dec }

ConfigurationComplete(c) ==
  /\ Len(c.localRanges) >= 2
  /\ Len(c.adjLayerRanges) >= 2
  /\ c.geoService
  /\ c.readout # ""
  /\ c.readout \in ReadoutNames
  /\ c.sectorField \in FieldNames(Decoder(c.readout))
  /\ c.layerField \in FieldNames(Decoder(c.readout))

\* C10: initialize returns FAILURE, before any hit is processed, when
\* localRanges or adjLayerRanges has fewer than 2 entries, the geometry
\* service is not found, readoutClass is empty, or the decoder or its sector
\* or layer field cannot be resolved; it returns SUCCESS only when all these
\* checks pass, and execute runs only after SUCCESS.
C10_InitializeFailsFast ==
  /\ (status # "NONE" /\ ~ConfigurationComplete(cfg)) => status = "FAILURE"
  /\ status = "SUCCESS" =>
       /\ ConfigurationComplete(cfg)
       /\ id_dec = Decoder(cfg.readout)
       /\ id_dec[sector_idx].name = cfg.sectorField
       /\ id_dec[layer_idx].name = cfg.layerField
  /\ status = "FAILURE" =>
       /\ pc = "failed"
       /\ hits = <<>> /\ visits = <<>> /\ groups = <<>> /\ clusters = <<>>
  /\ pc \in {"seeds", "dfs", "done"} => status = "SUCCESS"

C10_Witness ==
  /\ status = "FAILURE"
  /\ cfg.baseInit /\ cfg.geoService
  /\ Len(cfg.localRanges) >= 2 /\ Len(cfg.adjLayerRanges) >= 2
  /\ cfg.readout = "EcalBarrelHits"
  /\ cfg.layerField \notin FieldNames(Decoder(cfg.readout))

(***************************************************************************)
(* C11: the three-hit example under the default properties.                 *)
(***************************************************************************)
ExampleRun(ev) == pc = "done" /\ status = "SUCCESS" /\ hits = ev

\* C11: for the three-hit example h1 (layer 0, energy 100), h2 (layer 0,
\* energy 10, 0.2 mm away), h3 (layer 5, energy 5) with default
\* localRanges, adjLayerDiff and seed threshold 50 keV = 0.05 in the units
\* of energy(), the grouper yields two groups: {h1, h2} with h1 as its seed
\* and {h3}, since 5 is not below 0.05; only with the energies below and
\* above the threshold as the example supposes (100 keV, 10 keV, 5 keV) does
\* it yield the one group {h1, h2} with h3 in no group.
C11_ExampleGroups ==
  /\ ExampleRun(ExampleNative) => groups = << <<1, 2>>, <<3>> >>
  /\ ExampleRun(ExampleKeV) => groups = << <<1, 2>> >> /\ 3 \notin Grouped

C11_Witness == ExampleRun(ExampleNative) /\ Len(groups) = 2 /\ groups[2] = <<3>>

\* C11 as stated: the example yields exactly one group, {h1, h2} seeded by
\* h1, and h3 belongs to no group
C11_ExampleOneGroup ==
  ExampleRun(ExampleNative) =>
    /\ Len(groups) = 1
    /\ groups[1][1] = 1
    /\ Members(groups[1]) = {1, 2}
    /\ 3 \notin Grouped

(***************************************************************************)
(* The grouper followed by the reconstructor: ClusterRecoCoG::execute reads *)
(* the cluster collection that TopologicalCellCluster::execute has written. *)
(***************************************************************************)
InitPipe ==
  /\ cfg \in ConfigSet
  /\ status = "NONE"
  /\ id_dec = NoDecoder /\ sector_idx = NoIndex /\ layer_idx = NoIndex
  /\ hits = <<>> /\ visits = <<>> /\ groups = <<>>
  /\ oi = 0 /\ stack = <<>> /\ clusters = <<>>
  /\ pc = "constructed"
  /\ nbrIdle
  /\ logWeightBase = 3600
  /\ rcl = <<>> /\ rnext = 0 /\ rlog = <<>> /\ geoCalls = 0

\* ClusterRecoCoG::execute, line 64, on the output collection of the grouper
PipeRecoBegin ==
  /\ pc = "done" /\ rnext = 0
  /\ rcl' = clusters
  /\ rnext' = 1
  /\ UNCHANGED <<logWeightBase, rlog, geoCalls>>
  /\ UNCHANGED <<tccVars, nbrVars>>

NextPipe == Next \/ PipeRecoBegin \/ Reconstruct

SpecPipe == InitPipe /\ [][NextPipe]_vars

PipeDone == pc = "done" /\ rnext > Len(rcl)

\* the hits of group g as members of a cluster, with the energies the
\* grouper's hits have (keV); the grouper hands no such member to
\* reconstruct, so EnergyLoop never adds them
GroupHits(g) ==
  [ k \in 1..Len(g) |->
      RecoHit(hits[g[k]].cellID, hits[g[k]].energy,
              hits[g[k]].local.x, hits[g[k]].local.y, 0) ]

\* C12: after the grouper and then the reconstructor have run there is
\* exactly one cluster per hit group, each cluster holds the hits of its
\* group, and its energy is the sum of the energies of these hits.
C12_ClusterHoldsGroup ==
  PipeDone =>
    /\ Len(rcl) = Len(groups)
    /\ \A k \in 1..Len(groups) :
         /\ k <= Len(rcl)
         /\ rcl[k].hits = GroupHits(groups[k])
         /\ rcl[k].energy = Fin(SumEnergy(GroupHits(groups[k])))

(***************************************************************************)
(* execute() and dfs_group() as functions of the hit sequence, to compare   *)
(* the groups of an event with the groups of its permutations.              *)
(***************************************************************************)
NeighborHits(h1, h2) == is_neighbor(cfg, id_dec, sector_idx, layer_idx, h1, h2)

\* dfs_group, lines 225-242: st holds the group being built and visits;
\* dfs_scan is its loop from i on, for the hit idx just added
RECURSIVE dfs_group(_, _, _), dfs_scan(_, _, _, _)
dfs_group(hs, st, idx) ==
  dfs_scan(hs, [group |-> Append(st.group, idx),
                visits |-> [st.visits EXCEPT ![idx] = TRUE]], idx, 1)

dfs_scan(hs, st, idx, i) ==
  IF i > Len(hs) THEN st
  ELSE IF st.visits[i] \/ ~NeighborHits(hs[idx], hs[i])
       THEN dfs_scan(hs, st, idx, i + 1)
       ELSE dfs_scan(hs, dfs_group(hs, st, i), idx, i + 1)

\* execute, lines 158-166, from hit i on: gs are the groups so far
RECURSIVE seed_loop(_, _, _, _)
seed_loop(hs, i, gs, vs) ==
  IF i > Len(hs) THEN gs
  ELSE IF vs[i] \/ hs[i].energy < cfg.minClusterCenterEdep
       THEN seed_loop(hs, i + 1, gs, vs)
       ELSE LET st == dfs_group(hs, [group |-> <<>>, visits |-> vs], i)
            IN seed_loop(hs, i + 1, Append(gs, st.group), st.visits)

execute_groups(hs) == seed_loop(hs, 1, <<>>, [k \in 1..Len(hs) |-> FALSE])

\* the exchanges of two hits of an event of n hits, and the identity.  Every
\* permutation is a product of exchanges, and the events are all the
\* sequences over the pool, so an exchanged event is an event as well:
\* what holds of every exchange of every event holds of every permutation.
Exchanges(n) ==
  { [k \in 1..n |-> IF k = a THEN b ELSE IF k = b THEN a ELSE k] :
      a \in 1..n, b \in 1..n }

\* the event with its hits in the order p: position k holds hit p[k]
Permuted(hs, p) == [k \in 1..Len(hs) |-> hs[p[k]]]

\* the groups of the permuted event, as sets of hits of the event itself
PermutedGroupSets(p) ==
  LET gs == execute_groups(Permuted(hits, p))
  IN { { p[gs[j][k]] : k \in 1..Len(gs[j]) } : j \in 1..Len(gs) }

\* C13: the groups of an event, viewed as sets of hits, do not depend on the
\* order of the hits: two orders of the same hits yield the same collection
\* of groups.  Stated for every event and every exchange of two of its hits.
C13_OrderIndependent ==
  (pc = "done" /\ status = "SUCCESS") =>
    \A p \in Exchanges(Len(hits)) : PermutedGroupSets(p) = GroupSets

\* an event of two groups where the exchange of the first and the last hit
\* makes another hit the seed of the first group
C13_Witness ==
  /\ pc = "done" /\ status = "SUCCESS" /\ Len(hits) = 3 /\ Len(groups) = 2
  /\ LET rev == [k \in 1..3 |-> 4 - k]
         gs == execute_groups(Permuted(hits, rev))
     IN /\ rev[gs[1][1]] # groups[1][1]
        /\ Len(groups[1]) = 2

(***************************************************************************)
(* C14: the reference cell of the reconstruction.                           *)
(***************************************************************************)
MaxEnergy(hs) ==
  CHOOSE m \in { hs[k].energy : k \in 1..Len(hs) } :
    \A k \in 1..Len(hs) : hs[k].energy <= m

\* the cell of the first member of maximal energy
FirstMaxCell(hs) ==
  LET k == CHOOSE a \in 1..Len(hs) :
             /\ hs[a].energy = MaxEnergy(hs)
             /\ \A b \in 1..(a - 1) : hs[b].energy < MaxEnergy(hs)
  IN hs[k].cellID0

\* C14: for member hits of non-negative energy, the reference cell of a
\* reconstructed cluster is the cell of its member of maximal energy, the
\* first such member on ties (so the first member when every energy is 0),
\* and this one cell is used both for the cell-depth lookup and for the
\* local-to-global transform.
C14_ReferenceCell ==
  \A c \in Reconstructed :
    Len(rcl[c].hits) >= 1 =>
      /\ rlog[c].centerID = FirstMaxCell(rcl[c].hits)
      /\ rcl[c].position.k = "world"
      /\ rcl[c].position.frame = FirstMaxCell(rcl[c].hits)
      /\ rcl[c].position.depthOf = FirstMaxCell(rcl[c].hits)

\* a tie at the maximum between two cells, after a smaller first member
C14_Witness ==
  \E c \in Reconstructed :
    /\ Len(rcl[c].hits) = 3
    /\ rcl[c].hits[1].energy = 1
    /\ rcl[c].hits[2].energy = 2 /\ rcl[c].hits[3].energy = 2
    /\ rcl[c].hits[2].cellID0 # rcl[c].hits[3].cellID0
    /\ rcl[c].position.frame = rcl[c].hits[2].cellID0
    /\ rcl[c].position.depthOf = rcl[c].hits[2].cellID0

(***************************************************************************)
(* C15: the order in which seeds are taken.                                 *)
(***************************************************************************)
Seed(k) == groups[k][1]

EligibleIn(S) == { a \in S : SeedEligible(a) }

\* in every state of execute the seed of each group is seed-eligible and
\* lies before the position of the seed loop, and the seeds increase with
\* the groups; the seeds never change (SeedStep), so it is at the end of
\* execute that each is compared with its component: it is the hit of
\* lowest index among the seed-eligible hits of the component, and there
\* are as many groups as components that hold a seed-eligible hit
SeedsInOrder ==
  /\ \A k \in 1..Len(groups) : SeedEligible(Seed(k)) /\ Seed(k) <= oi
  /\ \A j, k \in 1..Len(groups) : j < k => Seed(j) < Seed(k)
  /\ pc = "done" =>
       /\ \A k \in 1..Len(groups) :
            \A a \in EligibleIn(Component(Seed(k))) : Seed(k) <= a
       /\ Len(groups) =
            Cardinality({ Component(a) : a \in EligibleIn(HitIndices) })

\* in every step of execute: a group is opened only by the hit at the
\* position of the seed loop, which no group has consumed; the groups
\* opened before keep their place and their seed; the loop position never
\* goes back
SeedStep ==
  pc \in {"seeds", "dfs"} =>
    /\ oi' >= oi
    /\ Len(groups') >= Len(groups) /\ Len(groups') <= Len(groups) + 1
    /\ \A k \in 1..Len(groups) : groups'[k][1] = groups[k][1]
    /\ Len(groups') = Len(groups) + 1 =>
         /\ groups'[Len(groups')] = <<oi>>
         /\ oi \notin Grouped
         /\ ~visits[oi]

\* C15: seeds are taken in input order and a hit that a group has consumed
\* is never made a seed: the seed of each group is the lowest-index
\* seed-eligible hit of its connected component, groups are created in
\* strictly increasing order of seed index, and the number of groups is the
\* number of components that hold a seed-eligible hit.
C15_SeedsInInputOrder == []SeedsInOrder /\ [][SeedStep]_vars

\* a finished event whose second group is seeded by its third hit, the
\* second hit being seed-eligible and consumed by the first group, and the
\* fourth hit being an eligible member of the second group
C15_Witness ==
  /\ pc = "done" /\ Len(hits) = 4 /\ Len(groups) = 2
  /\ Seed(1) = 1 /\ Seed(2) = 3
  /\ SeedEligible(2) /\ 2 \in Members(groups[1])
  /\ SeedEligible(4) /\ 4 \in Members(groups[2])

(***************************************************************************)
(* C16: the calls of dfs_group in one execute.  Every call appends its hit  *)
(* to the group being built (line 233) and nothing else appends to a group, *)
(* so the calls made so far are the members of the groups, in order.        *)
(***************************************************************************)
RECURSIVE Flatten(_)
Flatten(gs) == IF gs = <<>> THEN <<>> ELSE gs[1] \o Flatten(Tail(gs))

DfsCalls == Flatten(groups)

CallsOf(idx) == Cardinality({ k \in 1..Len(DfsCalls) : DfsCalls[k] = idx })

\* the activations on the stack belong to the group being built
DfsBounded ==
  /\ \A idx \in HitIndices : CallsOf(idx) <= 1
  /\ Len(visits) = Len(hits)
  /\ \A idx \in HitIndices : visits[idx] <=> idx \in Grouped
  /\ stack # <<>> => /\ groups # <<>>
                     /\ Len(stack) <= Len(groups[Len(groups)])
                     /\ \A d \in 1..Len(stack) :
                          stack[d].idx \in Members(groups[Len(groups)])
  /\ Len(DfsCalls) <= Len(hits)

\* a step enters dfs_group exactly when it pushes an activation: it is
\* entered for a hit not visited before and records one more call, for that
\* hit; no other step changes the groups or visits
DfsStep ==
  pc \in {"seeds", "dfs"} =>
    IF Len(stack') = Len(stack) + 1
    THEN LET idx == stack'[Len(stack')].idx
         IN /\ ~visits[idx]
            /\ CallsOf(idx) = 0
            /\ DfsCalls' = Append(DfsCalls, idx)
            /\ visits' = [visits EXCEPT ![idx] = TRUE]
    ELSE /\ Len(stack') <= Len(stack)
         /\ groups' = groups /\ visits' = visits

\* an upper bound of the steps execute has left: the end of execute, the
\* hits the seed loop has not passed, for each hit not visited yet the call
\* of dfs_group on it with its whole scan and its return, and for each
\* activation on the stack what is left of its scan and its return
RECURSIVE ScanLeft(_)
ScanLeft(st) ==
  IF st = <<>> THEN 0 ELSE (Len(hits) + 2 - st[1].i) + ScanLeft(Tail(st))

StepsLeft ==
  (IF pc = "done" THEN 0 ELSE 1)
  + (Len(hits) + 1 - oi)
  + Cardinality({ idx \in HitIndices : ~visits[idx] }) * (Len(hits) + 2)
  + ScanLeft(stack)

\* every step of execute uses up at least one of the steps left, of which
\* there are never fewer than none
DfsProgress ==
  pc \in {"seeds", "dfs"} => StepsLeft' < StepsLeft /\ StepsLeft' >= 0

\* the framework runs initialize() and then execute() on the event, and
\* sequential code goes on to its next statement
SpecFair == Spec /\ WF_vars(Next)

\* C16: the grouping pass terminates for every finite hit sequence: every
\* execute that has begun reaches its end, each of its steps using up one
\* of a bounded number of steps left.  Within one execute, dfs_group is
\* entered at most once per hit index; at all times a hit is marked visited
\* exactly when it is in some group; the recursion depth never exceeds the
\* number of hits in the group being built; and the total number of
\* dfs_group calls never exceeds the number of hits.
C16_DfsTerminates ==
  /\ []DfsBounded
  /\ [][DfsStep /\ DfsProgress]_vars
  /\ (pc = "seeds") ~> (pc = "done")

\* a finished execute on four hits: one group of three built by a recursion
\* three deep (the third member is a neighbour of the second only), three
\* calls of dfs_group, and a fourth hit left out
C16_Witness ==
  /\ pc = "done" /\ Len(hits) = 4
  /\ Len(groups) = 1 /\ Len(groups[1]) = 3
  /\ Adjacent(groups[1][1], groups[1][2])
  /\ Adjacent(groups[1][2], groups[1][3])
  /\ ~Adjacent(groups[1][1], groups[1][3])
  /\ Len(DfsCalls) = 3
  /\ \E idx \in HitIndices : ~visits[idx] /\ idx \notin Grouped

====
